---- MODULE Spec2Model ----
(***************************************************************************)
(* Model of config.py (process-wide settings singleton, lazily built       *)
(* database engine) and crypto_utils_sodium.py (sealed-box helpers).       *)
(*                                                                         *)
(* Strings are sequences of one-character strings, so that strip(),        *)
(* split(",") and int() are computed character by character.               *)
(* Optional values: an environment variable is <<>> when unset and <<s>>   *)
(* when set to the string s; an object reference is 0 for None and the     *)
(* index of the object in its heap otherwise.                              *)
(***************************************************************************)
EXTENDS Integers, Sequences, FiniteSets, TLC

VARIABLES
    env,        \* os.environ restricted to the variables load_config reads
    _cfg,       \* the module global _cfg: 0 is None, else an index in configs
    configs,    \* every Config instance constructed so far (the heap)
    engines,    \* every Engine constructed by create_engine so far
    pc,         \* per thread: the line of config.py it is about to execute
    op,         \* per thread: the function the thread's caller invoked
    loc,        \* per thread: load_config's locals pg, cors, default_interval
    self,       \* per thread: the Config instance engine() runs on
    ret,        \* per thread: how its last call ended
    held,       \* per thread: the Config reference cfg() last returned to it
    envReads,   \* number of load_config executions that went on to read env
    data,       \* crypto_utils_sodium: the raw bytes of a key file
    pubkey,     \* outcome of load_public_key_b64(data)
    privkey,    \* outcome of load_private_key_b64(data)
    pk,         \* the PublicKey a sealed box is made for
    sk,         \* the PrivateKey a sealed box is opened with
    plaintext,  \* the bytes handed to sealedbox_encrypt
    ciphertext, \* outcome of sealedbox_encrypt(pk, plaintext)
    decrypted   \* outcome of sealedbox_decrypt(sk, ciphertext)

configVars == <<env, _cfg, configs, engines, pc, op, loc, self, ret, held, envReads>>

sodiumVars == <<data, pubkey, privkey, pk, sk, plaintext, ciphertext, decrypted>>

vars == <<configVars, sodiumVars>>

----------------------------------------------------------------------------
(* Bounds *)

NumThreads == 2
MaxEnvReads == 2

Threads == 1..NumThreads

None == 0

----------------------------------------------------------------------------
(* Python string operations, on sequences of characters *)

Whitespace == {" ", "\t", "\n", "\r"}

RECURSIVE lstrip(_)
lstrip(s) ==
    IF s # <<>> /\ Head(s) \in Whitespace THEN lstrip(Tail(s)) ELSE s

RECURSIVE rstrip(_)
rstrip(s) ==
    IF s # <<>> /\ s[Len(s)] \in Whitespace
    THEN rstrip(SubSeq(s, 1, Len(s) - 1))
    ELSE s

\* str.strip(): leading and trailing whitespace removed
strip(s) == rstrip(lstrip(s))

\* str.split(sep) for a one-character separator: the maximal separator-free
\* segments, empty ones included; never the empty list
RECURSIVE splitFrom(_, _, _)
splitFrom(s, sep, cur) ==
    IF s = <<>> THEN <<cur>>
    ELSE IF Head(s) = sep THEN <<cur>> \o splitFrom(Tail(s), sep, <<>>)
    ELSE splitFrom(Tail(s), sep, Append(cur, Head(s)))

split(s, sep) == splitFrom(s, sep, <<>>)

Digits == {"0", "1", "2", "3", "4", "5", "6", "7", "8", "9"}

DigitVal(c) ==
    CASE c = "0" -> 0 [] c = "1" -> 1 [] c = "2" -> 2 [] c = "3" -> 3
      [] c = "4" -> 4 [] c = "5" -> 5 [] c = "6" -> 6 [] c = "7" -> 7
      [] c = "8" -> 8 [] c = "9" -> 9

\* the digits of an int() literal: decimal digits, single underscores
\* allowed between two digits only
RECURSIVE digitsOk(_, _)
digitsOk(s, prevDigit) ==
    IF s = <<>> THEN prevDigit
    ELSE IF Head(s) \in Digits THEN digitsOk(Tail(s), TRUE)
    ELSE IF Head(s) = "_" THEN prevDigit /\ Tail(s) # <<>>
                               /\ Head(Tail(s)) \in Digits
                               /\ digitsOk(Tail(s), FALSE)
    ELSE FALSE

RECURSIVE digitsVal(_, _)
digitsVal(s, acc) ==
    IF s = <<>> THEN acc
    ELSE IF Head(s) = "_" THEN digitsVal(Tail(s), acc)
    ELSE digitsVal(Tail(s), 10 * acc + DigitVal(Head(s)))

unsigned(s) == IF s # <<>> /\ Head(s) \in {"+", "-"} THEN Tail(s) ELSE s

\* whether int(s) returns (TRUE) or raises ValueError (FALSE)
int_ok(s) == digitsOk(unsigned(strip(s)), FALSE)

\* the value int(s) returns, for int_ok(s)
int_val(s) ==
    LET b == strip(s)
        m == digitsVal(unsigned(b), 0)
    IN  IF Head(b) = "-" THEN 0 - m ELSE m

----------------------------------------------------------------------------
(* The environment and load_config's parsing of it *)

EnvNames == {"PG_DSN_APP", "CORS_ALLOWED_ORIGINS", "DEFAULT_QUERY_INTERVAL"}

\* os.getenv(name, default)
getenv(name, default) == IF env[name] = <<>> THEN default ELSE env[name][1]

DefaultPg == <<>>
DefaultCors == <<"*">>
DefaultInterval == <<"2", "1", "6", "0", "0">>

\* os.getenv("PG_DSN_APP", "").strip()
read_pg == strip(getenv("PG_DSN_APP", DefaultPg))

\* the list with its elements left untrimmed: [o for o in ... if o.strip()]
parse_origins_untrimmed(value) ==
    SelectSeq(split(value, ","), LAMBDA o : strip(o) # <<>>)

\* [o.strip() for o in value.split(",") if o.strip()]
parse_origins(value) ==
    LET parts == split(value, ",")
        kept == SelectSeq(parts, LAMBDA o : strip(o) # <<>>)
    IN  [i \in 1..Len(kept) |-> strip(kept[i])]

read_cors == parse_origins(getenv("CORS_ALLOWED_ORIGINS", DefaultCors))

read_interval == getenv("DEFAULT_QUERY_INTERVAL", DefaultInterval)

\* Config(pg_dsn_app=pg, cors_allowed_origins=cors, default_query_interval=...)
Config(pg, cors, interval) ==
    [pg_dsn_app |-> pg, cors_allowed_origins |-> cors,
     default_query_interval |-> interval, _engine |-> None]

\* create_engine(url, pool_pre_ping=True, future=True): a new pool for url
create_engine(url, owner) == [url |-> url, owner |-> owner]

----------------------------------------------------------------------------
(* Thread bookkeeping *)

NoLocals == [pg |-> <<>>, cors |-> <<>>, default_interval |-> 0]

NoRet == [kind |-> "none", op |-> "none", val |-> None, exc |-> "none", on |-> None]

Returned(o, v, i) == [kind |-> "ok", op |-> o, val |-> v, exc |-> "none", on |-> i]

Raised(o, e, i) == [kind |-> "raise", op |-> o, val |-> None, exc |-> e, on |-> i]

AllIdle == \A t \in Threads : pc[t] = "idle"

\* the thread's call ends with outcome r
Finish(t, r) ==
    /\ pc' = [pc EXCEPT ![t] = "idle"]
    /\ ret' = [ret EXCEPT ![t] = r]
    /\ loc' = [loc EXCEPT ![t] = NoLocals]
    /\ self' = [self EXCEPT ![t] = None]

Goto(t, line) ==
    /\ pc' = [pc EXCEPT ![t] = line]
    /\ UNCHANGED <<ret, self>>

\* the environments a specification ranges over
EnvOver(pgs, corss, intervals) ==
    { [n \in EnvNames |->
         IF n = "PG_DSN_APP" THEN p
         ELSE IF n = "CORS_ALLOWED_ORIGINS" THEN c
         ELSE i] : p \in pgs, c \in corss, i \in intervals }

Unset == <<>>
Set(s) == <<s>>

----------------------------------------------------------------------------
(* Callers *)

Begin(t, o, line) ==
    /\ pc[t] = "idle"
    /\ envReads < MaxEnvReads \/ _cfg # None
    /\ pc' = [pc EXCEPT ![t] = line]
    /\ op' = [op EXCEPT ![t] = o]
    /\ ret' = [ret EXCEPT ![t] = NoRet]

\* a caller invokes load_config()
CallLoadConfig(t) ==
    /\ Begin(t, "load_config", "lc58")
    /\ UNCHANGED <<env, _cfg, configs, engines, loc, self, held, envReads, sodiumVars>>

\* a caller invokes cfg()
CallCfg(t) ==
    /\ Begin(t, "cfg", "cfg66")
    /\ UNCHANGED <<env, _cfg, configs, engines, loc, self, held, envReads, sodiumVars>>

\* a caller invokes engine() on the Config it got from cfg()
CallEngine(t) ==
    /\ held[t] # None
    /\ Begin(t, "engine", "eng42")
    /\ self' = [self EXCEPT ![t] = held[t]]
    /\ UNCHANGED <<env, _cfg, configs, engines, loc, held, envReads, sodiumVars>>

\* another part of the process sets or deletes one variable of os.environ
SetEnv(pgs, corss, intervals) ==
    /\ \E n \in EnvNames :
         \E v \in (IF n = "PG_DSN_APP" THEN pgs
                   ELSE IF n = "CORS_ALLOWED_ORIGINS" THEN corss
                   ELSE intervals) :
            /\ v # env[n]
            /\ env' = [env EXCEPT ![n] = v]
    /\ UNCHANGED <<_cfg, configs, engines, pc, op, loc, self, ret, held, envReads, sodiumVars>>

----------------------------------------------------------------------------
(* load_config, line by line *)

\* load_config returns None: to its caller, or into cfg() at line 68
LoadConfigReturns(t) ==
    IF op[t] = "cfg"
    THEN Goto(t, "cfg68") /\ loc' = [loc EXCEPT ![t] = NoLocals]
    ELSE Finish(t, Returned("load_config", None, None))

\* load_config without its test of _cfg
LC58_NoTest(t) ==
    /\ pc[t] = "lc58"
    /\ Goto(t, "lc60") /\ UNCHANGED loc
    /\ UNCHANGED <<env, _cfg, configs, engines, op, held, envReads, sodiumVars>>

\* line 58-59: if _cfg is not None: return
LC58(t) ==
    /\ pc[t] = "lc58"
    /\ IF _cfg # None THEN LoadConfigReturns(t)
                      ELSE Goto(t, "lc60") /\ UNCHANGED loc
    /\ UNCHANGED <<env, _cfg, configs, engines, op, held, envReads, sodiumVars>>

\* line 60: pg = os.getenv("PG_DSN_APP", "").strip()
LC60(t) ==
    /\ pc[t] = "lc60"
    /\ loc' = [loc EXCEPT ![t].pg = read_pg]
    /\ envReads' = envReads + 1
    /\ Goto(t, "lc61")
    /\ UNCHANGED <<env, _cfg, configs, engines, op, held, sodiumVars>>

\* line 61: cors = [o.strip() for o in os.getenv(...).split(",") if o.strip()]
LC61(t) ==
    /\ pc[t] = "lc61"
    /\ loc' = [loc EXCEPT ![t].cors = read_cors]
    /\ Goto(t, "lc62")
    /\ UNCHANGED <<env, _cfg, configs, engines, op, held, envReads, sodiumVars>>

\* load_config falling back to the default interval when int() fails
LC62_DefaultOnError(t) ==
    /\ pc[t] = "lc62"
    /\ loc' = [loc EXCEPT ![t].default_interval =
                 IF int_ok(read_interval) THEN int_val(read_interval)
                                          ELSE int_val(DefaultInterval)]
    /\ Goto(t, "lc63")
    /\ UNCHANGED <<env, _cfg, configs, engines, op, held, envReads, sodiumVars>>

\* line 62: default_interval = int(os.getenv("DEFAULT_QUERY_INTERVAL", "21600"))
\* int() raises ValueError on a malformed literal; nothing catches it
LC62(t) ==
    /\ pc[t] = "lc62"
    /\ IF int_ok(read_interval)
       THEN /\ loc' = [loc EXCEPT ![t].default_interval = int_val(read_interval)]
            /\ Goto(t, "lc63")
       ELSE Finish(t, Raised(op[t], "ValueError", None))
    /\ UNCHANGED <<env, _cfg, configs, engines, op, held, envReads, sodiumVars>>

\* line 63: _cfg = Config(pg_dsn_app=pg, cors_allowed_origins=cors, ...)
LC63(t) ==
    /\ pc[t] = "lc63"
    /\ configs' = Append(configs,
                     Config(loc[t].pg, loc[t].cors, loc[t].default_interval))
    /\ _cfg' = Len(configs) + 1
    /\ LoadConfigReturns(t)
    /\ UNCHANGED <<env, engines, op, held, envReads, sodiumVars>>

----------------------------------------------------------------------------
(* cfg, line by line *)

\* cfg without its call of load_config
CFG66_NoLoad(t) ==
    /\ pc[t] = "cfg66"
    /\ Goto(t, "cfg68")
    /\ UNCHANGED <<env, _cfg, configs, engines, op, loc, held, envReads, sodiumVars>>

\* line 66-67: if _cfg is None: load_config()
CFG66(t) ==
    /\ pc[t] = "cfg66"
    /\ IF _cfg = None THEN Goto(t, "lc58") ELSE Goto(t, "cfg68")
    /\ UNCHANGED <<env, _cfg, configs, engines, op, loc, held, envReads, sodiumVars>>

\* line 68: return _cfg
CFG68(t) ==
    /\ pc[t] = "cfg68"
    /\ Finish(t, Returned("cfg", _cfg, None))
    /\ held' = [held EXCEPT ![t] = _cfg]
    /\ UNCHANGED <<env, _cfg, configs, engines, op, envReads, sodiumVars>>

----------------------------------------------------------------------------
(* Config.engine, line by line *)

\* engine without its test of the cached handle
ENG42_NoCache(t) ==
    /\ pc[t] = "eng42"
    /\ Goto(t, "eng43")
    /\ UNCHANGED <<env, _cfg, configs, engines, op, loc, held, envReads, sodiumVars>>

\* line 42: if self._engine is None:
ENG42(t) ==
    /\ pc[t] = "eng42"
    /\ IF configs[self[t]]._engine = None THEN Goto(t, "eng43")
                                          ELSE Goto(t, "eng46")
    /\ UNCHANGED <<env, _cfg, configs, engines, op, loc, held, envReads, sodiumVars>>

\* engine without its test of the DSN
ENG43_NoDsnTest(t) ==
    /\ pc[t] = "eng43"
    /\ Goto(t, "eng45") /\ UNCHANGED loc
    /\ UNCHANGED <<env, _cfg, configs, engines, op, held, envReads, sodiumVars>>

\* line 43-44: if not self.pg_dsn_app: raise RuntimeError(...)
ENG43(t) ==
    /\ pc[t] = "eng43"
    /\ IF configs[self[t]].pg_dsn_app = <<>>
       THEN Finish(t, Raised("engine", "RuntimeError", self[t]))
       ELSE Goto(t, "eng45") /\ UNCHANGED loc
    /\ UNCHANGED <<env, _cfg, configs, engines, op, held, envReads, sodiumVars>>

\* line 45: self._engine = create_engine(self.pg_dsn_app, ...)
ENG45(t) ==
    /\ pc[t] = "eng45"
    /\ engines' = Append(engines,
                     create_engine(configs[self[t]].pg_dsn_app, self[t]))
    /\ configs' = [configs EXCEPT ![self[t]]._engine = Len(engines) + 1]
    /\ Goto(t, "eng46")
    /\ UNCHANGED <<env, _cfg, op, loc, held, envReads, sodiumVars>>

\* line 46: return self._engine
ENG46(t) ==
    /\ pc[t] = "eng46"
    /\ Finish(t, Returned("engine", configs[self[t]]._engine, self[t]))
    /\ UNCHANGED <<env, _cfg, configs, engines, op, held, envReads, sodiumVars>>

\* one step of a call in progress
Step(t) ==
    \/ LC58(t) \/ LC60(t) \/ LC61(t) \/ LC62(t) \/ LC63(t)
    \/ CFG66(t) \/ CFG68(t)
    \/ ENG42(t) \/ ENG43(t) \/ ENG45(t) \/ ENG46(t)

----------------------------------------------------------------------------
(* crypto_utils_sodium.py: key loading *)

\* the base64 alphabet, in value order
B64Chars ==
    <<
      "A", "B", "C", "D", "E", "F", "G", "H", "I", "J", "K", "L", "M", "N", "O", "P",
      "Q", "R", "S", "T", "U", "V", "W", "X", "Y", "Z", "a", "b", "c", "d", "e", "f",
      "g", "h", "i", "j", "k", "l", "m", "n", "o", "p", "q", "r", "s", "t", "u", "v",
      "w", "x", "y", "z", "0", "1", "2", "3", "4", "5", "6", "7", "8", "9", "+", "/"
    >>

IsB64Char(c) == \E i \in 1..Len(B64Chars) : B64Chars[i] = c

B64Val(c) == (CHOOSE i \in 1..Len(B64Chars) : B64Chars[i] = c) - 1

DecodeError == [ok |-> FALSE, bytes |-> <<>>]

Decoded(bytes) == [ok |-> TRUE, bytes |-> bytes]

\* binascii.a2b_base64 in its default, non-strict mode, one input character
\* at a time: characters outside the alphabet are skipped, a pad sequence
\* that completes a quad ends the input, and a quad left open at the end
\* is an error ("Incorrect padding")
RECURSIVE a2b_base64(_, _, _, _, _)
a2b_base64(s, quad_pos, pads, leftchar, out) ==
    IF s = <<>>
    THEN IF quad_pos # 0 THEN DecodeError ELSE Decoded(out)
    ELSE LET c == Head(s) IN
         IF c = "="
         THEN IF quad_pos >= 2 /\ quad_pos + pads + 1 >= 4
              THEN Decoded(out)
              ELSE a2b_base64(Tail(s), quad_pos,
                              IF quad_pos >= 2 THEN pads + 1 ELSE pads,
                              leftchar, out)
         ELSE IF ~IsB64Char(c)
         THEN a2b_base64(Tail(s), quad_pos, pads, leftchar, out)
         ELSE LET v == B64Val(c) IN
              CASE quad_pos = 0 ->
                     a2b_base64(Tail(s), 1, 0, v, out)
                [] quad_pos = 1 ->
                     a2b_base64(Tail(s), 2, 0, v % 16,
                                Append(out, leftchar * 4 + v \div 16))
                [] quad_pos = 2 ->
                     a2b_base64(Tail(s), 3, 0, v % 4,
                                Append(out, leftchar * 16 + v \div 4))
                [] quad_pos = 3 ->
                     a2b_base64(Tail(s), 0, 0, 0,
                                Append(out, leftchar * 64 + v))

\* base64.b64decode(data): validate=False, no altchars
b64decode(bytes) == a2b_base64(bytes, 0, 0, 0, <<>>)

\* nacl.public.PublicKey.SIZE and PrivateKey.SIZE
KeySize == 32

NotLoaded == [kind |-> "none", type |-> "none", raw |-> <<>>, exc |-> "none"]

KeyObject(type, raw) == [kind |-> "ok", type |-> type, raw |-> raw, exc |-> "none"]

KeyError(exc) == [kind |-> "raise", type |-> "none", raw |-> <<>>, exc |-> exc]

\* PublicKey(raw): ValueError unless raw is exactly SIZE bytes
PublicKey(raw) ==
    IF Len(raw) # KeySize THEN KeyError("ValueError")
                          ELSE KeyObject("PublicKey", raw)

\* PrivateKey(raw): TypeError unless raw is exactly SIZE bytes
PrivateKey(raw) ==
    IF Len(raw) # KeySize THEN KeyError("TypeError")
                          ELSE KeyObject("PrivateKey", raw)

\* the load without the decoding: PublicKey(data)
load_public_key_raw(bytes) == PublicKey(bytes)

\* line 7-9: return PublicKey(base64.b64decode(data))
load_public_key_b64(bytes) ==
    LET d == b64decode(bytes)
    IN  IF d.ok THEN PublicKey(d.bytes) ELSE KeyError("binascii.Error")

\* line 11-13: return PrivateKey(base64.b64decode(data))
load_private_key_b64(bytes) ==
    LET d == b64decode(bytes)
    IN  IF d.ok THEN PrivateKey(d.bytes) ELSE KeyError("binascii.Error")

----------------------------------------------------------------------------
(* crypto_utils_sodium.py: sealed boxes *)
(* Keys are symbolic: a private key is a scalar k, its public key the      *)
(* point of k; the key two parties agree on is the unordered pair of their *)
(* scalars; an authenticated box opens only under the key and nonce it was *)
(* made with.                                                              *)

NumKeys == 3

Scalars == 1..NumKeys

PublicKeyOf(k) == [type |-> "PublicKey", point |-> k]

PrivateKeyOf(k) == [type |-> "PrivateKey", scalar |-> k]

\* crypto_box_beforenm: the key shared by a private and a public key
shared_key(scalar, point) == {scalar, point}

\* the nonce of a sealed box: a hash of both public keys
seal_nonce(epoint, point) == <<epoint, point>>

NoBytes == [kind |-> "none", bytes |-> <<>>, exc |-> "none"]

PlainBytes(b) == [kind |-> "ok", bytes |-> b, exc |-> "none"]

CryptoError(e) == [kind |-> "raise", bytes |-> <<>>, exc |-> e]

NoCiphertext == [kind |-> "none", epk |-> 0, key |-> {}, nonce |-> <<>>, body |-> <<>>]

\* SealedBox(pk).encrypt(m) with ephemeral scalar e: the ephemeral public
\* key followed by the box of m under the shared key
crypto_box_seal(m, point, e) ==
    [kind |-> "ok", epk |-> e, key |-> shared_key(e, point),
     nonce |-> seal_nonce(e, point), body |-> m]

\* SealedBox(key).decrypt(c): needs a private key; opens the box with the
\* key shared with the ephemeral public key, CryptoError when it does not fit
crypto_box_seal_open(c, key) ==
    IF key.type # "PrivateKey" THEN CryptoError("TypeError")
    ELSE IF /\ c.key = shared_key(key.scalar, c.epk)
            /\ c.nonce = seal_nonce(c.epk, key.scalar)
         THEN PlainBytes(c.body)
         ELSE CryptoError("CryptoError")

\* line 15-16: return SealedBox(pk).encrypt(plaintext)
sealedbox_encrypt(pubk, m, e) == crypto_box_seal(m, pubk.point, e)

\* the box opened with the public half of the key:
\* SealedBox(sk.public_key).decrypt(ciphertext)
sealedbox_decrypt_public(privk, c) ==
    crypto_box_seal_open(c, PublicKeyOf(privk.scalar))

\* line 18-19: return SealedBox(sk).decrypt(ciphertext)
sealedbox_decrypt(privk, c) == crypto_box_seal_open(c, privk)

----------------------------------------------------------------------------
(* Specifications *)

\* no key file read, no box made
SodiumIdle ==
    /\ data = <<>>
    /\ pubkey = NotLoaded
    /\ privkey = NotLoaded
    /\ pk = PublicKeyOf(1)
    /\ sk = PrivateKeyOf(1)
    /\ plaintext = <<>>
    /\ ciphertext = NoCiphertext
    /\ decrypted = NoBytes

\* the module as imported: no singleton, no call in progress
ConfigInit(envs) ==
    /\ env \in envs
    /\ _cfg = None
    /\ configs = <<>>
    /\ engines = <<>>
    /\ pc = [t \in Threads |-> "idle"]
    /\ op = [t \in Threads |-> "none"]
    /\ loc = [t \in Threads |-> NoLocals]
    /\ self = [t \in Threads |-> None]
    /\ ret = [t \in Threads |-> NoRet]
    /\ held = [t \in Threads |-> None]
    /\ envReads = 0

InitIn(envs) == ConfigInit(envs) /\ SodiumIdle

\* every string over the alphabet of at most n characters
RECURSIVE Strings(_, _)
Strings(alphabet, n) ==
    IF n = 0 THEN {<<>>}
    ELSE LET shorter == Strings(alphabet, n - 1)
         IN  shorter \cup { Append(w, c) : w \in shorter, c \in alphabet }

AnyOf(strings) == {Unset} \cup { Set(w) : w \in strings }

\* values of the three variables in the threaded specification
PgValues == {Unset, Set(<<" ">>), Set(<<"p", "g">>)}
CorsValues == {Unset, Set(<<"a", ",", "b">>)}
IntervalValues == {Unset, Set(<<"6", "h">>)}

Envs == EnvOver(PgValues, CorsValues, IntervalValues)

Init == InitIn(Envs)

\* threads call load_config(), cfg() and engine() concurrently: a thread
\* switch can fall between any two lines
Next ==
    \/ \E t \in Threads : CallLoadConfig(t)
    \/ \E t \in Threads : CallCfg(t)
    \/ \E t \in Threads : CallEngine(t)
    \/ \E t \in Threads : Step(t)
    \/ SetEnv(PgValues, CorsValues, IntervalValues)

Spec == Init /\ [][Next]_vars

\* DEFAULT_QUERY_INTERVAL ranges over every short string of these characters;
\* CORS_ALLOWED_ORIGINS stays unset
MaxIntervalLen == 2
IntervalAlphabet == {"6", "-", " ", "h", "_"}

IntervalValuesSeq == AnyOf(Strings(IntervalAlphabet, MaxIntervalLen))

EnvsSeq == EnvOver(PgValues, {Unset}, IntervalValuesSeq)

InitSeq == InitIn(EnvsSeq)

\* the calls are made one after the other, by the first thread; the
\* environment changes only between two calls
MainThread == CHOOSE t \in Threads : \A u \in Threads : t <= u

NextSeq ==
    \/ CallLoadConfig(MainThread)
    \/ CallCfg(MainThread)
    \/ CallEngine(MainThread)
    \/ Step(MainThread)
    \/ AllIdle /\ SetEnv(PgValues, {Unset}, IntervalValuesSeq)

SpecSeq == InitSeq /\ [][NextSeq]_vars

\* CORS_ALLOWED_ORIGINS ranges over every short string of these characters,
\* and the documented example " a , b ,,c "
MaxCorsLen == 4
CorsAlphabet == {"a", "b", " ", ","}
CorsExample == <<" ", "a", " ", ",", " ", "b", " ", ",", ",", "c", " ">>

EnvsCors ==
    EnvOver({Unset, Set(<<"p", "g">>)},
            AnyOf(Strings(CorsAlphabet, MaxCorsLen) \cup {CorsExample}),
            {Unset})

InitCors == InitIn(EnvsCors)

NextCors ==
    \/ CallLoadConfig(MainThread)
    \/ CallCfg(MainThread)
    \/ CallEngine(MainThread)
    \/ Step(MainThread)

SpecCors == InitCors /\ [][NextCors]_vars

\* key files: base64 text of about KeySize bytes, with every padding and a
\* few trailing bytes, and every short file
LenSlack == 2
MaxPad == 3
MaxShortLen == 3

\* characters needed to encode n bytes, padding not counted
EncodedLen(n) == (4 * n + 2) \div 3

Repeat(c, n) == [i \in 1..n |-> c]

KeyFiles ==
    { Repeat(c, n) \o Repeat("=", p) \o tl :
        c \in {"A", "q", "/"},
        n \in (EncodedLen(KeySize) - LenSlack)..(EncodedLen(KeySize) + LenSlack),
        p \in 0..MaxPad,
        tl \in {<<>>, <<"\n">>, <<"A">>, <<"=">>} }
    \cup Strings({"A", "=", "\n"}, MaxShortLen)

ConfigIdle == UNCHANGED configVars

\* a key file is read
ReadKeyFile ==
    /\ data' \in KeyFiles \ {data}
    /\ pubkey' = NotLoaded
    /\ privkey' = NotLoaded
    /\ UNCHANGED <<pk, sk, plaintext, ciphertext, decrypted>>
    /\ ConfigIdle

LoadPublicKey ==
    /\ pubkey' = load_public_key_b64(data)
    /\ UNCHANGED <<data, privkey, pk, sk, plaintext, ciphertext, decrypted>>
    /\ ConfigIdle

LoadPrivateKey ==
    /\ privkey' = load_private_key_b64(data)
    /\ UNCHANGED <<data, pubkey, pk, sk, plaintext, ciphertext, decrypted>>
    /\ ConfigIdle

InitKeys ==
    /\ ConfigInit(EnvOver({Unset}, {Unset}, {Unset}))
    /\ data \in KeyFiles
    /\ pubkey = NotLoaded
    /\ privkey = NotLoaded
    /\ pk = PublicKeyOf(1)
    /\ sk = PrivateKeyOf(1)
    /\ plaintext = <<>>
    /\ ciphertext = NoCiphertext
    /\ decrypted = NoBytes

NextKeys == ReadKeyFile \/ LoadPublicKey \/ LoadPrivateKey

SpecKeys == InitKeys /\ [][NextKeys]_vars

\* sealed boxes: every pairing of a public and a private key, every short
\* plaintext, every ephemeral key
MaxPlainLen == 2
PlainBytesAlphabet == {0, 255}

Encrypt ==
    /\ \E e \in Scalars : ciphertext' = sealedbox_encrypt(pk, plaintext, e)
    /\ decrypted' = NoBytes
    /\ UNCHANGED <<data, pubkey, privkey, pk, sk, plaintext>>
    /\ ConfigIdle

Decrypt ==
    /\ ciphertext.kind = "ok"
    /\ decrypted' = sealedbox_decrypt(sk, ciphertext)
    /\ UNCHANGED <<data, pubkey, privkey, pk, sk, plaintext, ciphertext>>
    /\ ConfigIdle

InitBox ==
    /\ ConfigInit(EnvOver({Unset}, {Unset}, {Unset}))
    /\ data = <<>>
    /\ pubkey = NotLoaded
    /\ privkey = NotLoaded
    /\ pk \in { PublicKeyOf(k) : k \in Scalars }
    /\ sk \in { PrivateKeyOf(k) : k \in Scalars }
    /\ plaintext \in Strings(PlainBytesAlphabet, MaxPlainLen)
    /\ ciphertext = NoCiphertext
    /\ decrypted = NoBytes

NextBox == Encrypt \/ Decrypt

SpecBox == InitBox /\ [][NextBox]_vars
----------------------------------------------------------------------------
(* Properties of load_config and cfg *)

\* the settings of a Config, its cached engine aside
Settings(c) == <<c.pg_dsn_app, c.cors_allowed_origins, c.default_query_interval>>

\* the Config that load_config would build from the environment as it is
FromEnv == Config(read_pg, read_cors, int_val(read_interval))

SomeCallEnded == \E t \in Threads : ret[t].kind # "none"

\* C1, as stated: over any sequence of sequential calls the environment is
\* read exactly once, by the first call; once any call has ended and no
\* call is in progress, exactly one read has happened.
C1_ReadExactlyOnce == (AllIdle /\ SomeCallEnded) => envReads = 1

\* once a singleton is stored no step replaces it, changes its settings or
\* reads the environment
SingletonKept ==
    _cfg # None =>
        /\ _cfg' = _cfg
        /\ envReads' = envReads
        /\ Len(configs') = Len(configs)
        /\ Settings(configs'[_cfg]) = Settings(configs[_cfg])

\* the step that stores the singleton stores what the environment holds
StoredFromEnv ==
    (_cfg = None /\ _cfg' # None) =>
        /\ int_ok(read_interval)
        /\ configs'[_cfg'] = FromEnv

\* C1, amended: over any sequence of sequential calls to load_config() and
\* cfg(), at most one Config is ever constructed; it holds the values the
\* environment had in the call that stored it; from then on the singleton is
\* never overwritten and no call reads the environment again.  (Calls made
\* before that, which failed to parse the interval, each read the
\* environment and store nothing.)
C1_SingletonStoredOnce ==
    /\ [](Len(configs) <= 1 /\ (_cfg = None <=> configs = <<>>))
    /\ [][SingletonKept /\ StoredFromEnv]_vars

\* a later load_config() call is at its test with the singleton stored and
\* the environment changed since
C1_Witness ==
    \E t \in Threads :
        /\ pc[t] = "lc58" /\ op[t] = "load_config"
        /\ _cfg # None
        /\ configs[_cfg].pg_dsn_app # read_pg

\* how many threads are between the test of _cfg and the store to it
Initializing == Cardinality({t \in Threads : pc[t] \in {"lc60", "lc61", "lc62", "lc63"}})

\* C2: under every interleaving of concurrent cfg()/load_config() calls
\* there is one initialization: no two threads are past the test of _cfg
\* together, none is once a Config exists, at most one Config is
\* constructed, and all cfg() callers get the same instance.
C2_SingleInitialization ==
    /\ Initializing + Len(configs) <= 1
    /\ \A t, u \in Threads :
         (ret[t].kind = "ok" /\ ret[t].op = "cfg" /\
          ret[u].kind = "ok" /\ ret[u].op = "cfg") => ret[t].val = ret[u].val

\* C6: cfg() calls load_config() exactly when no singleton is stored; what
\* it returns is a Config, never None, and is the singleton; once the
\* singleton exists no step replaces it or reads the environment.
C6_CfgReturnsSingleton ==
    /\ [](\A t \in Threads :
            (ret[t].kind = "ok" /\ ret[t].op = "cfg") =>
                (ret[t].val # None /\ ret[t].val = _cfg /\ held[t] = _cfg))
    /\ [][/\ \A t \in Threads :
               (pc[t] = "cfg66" /\ pc'[t] # "cfg66") =>
                   /\ (pc'[t] = "lc58") <=> (_cfg = None)
                   /\ (pc'[t] = "cfg68") <=> (_cfg # None)
          /\ (_cfg # None => (_cfg' = _cfg /\ envReads' = envReads))]_vars

\* cfg() has returned the singleton after an engine was built on it: a
\* call made after the singleton existed
C6_Witness ==
    \E t \in Threads :
        /\ ret[t].kind = "ok" /\ ret[t].op = "cfg"
        /\ ret[t].val # None
        /\ configs[ret[t].val]._engine # None

\* a base-10 integer literal as int() reads one: optional surrounding
\* whitespace, an optional sign, decimal digits, single underscores between
\* digits
IsIntegerLiteral(s) ==
    \E i \in 1..Len(s) : \E j \in i..Len(s) :
        /\ \A k \in 1..(i - 1) : s[k] \in Whitespace
        /\ \A k \in (j + 1)..Len(s) : s[k] \in Whitespace
        /\ LET d == IF s[i] \in {"+", "-"} THEN i + 1 ELSE i
           IN  /\ d <= j
               /\ s[d] \in Digits
               /\ s[j] \in Digits
               /\ \A k \in d..j : s[k] \in Digits \cup {"_"}
               /\ \A k \in (d + 1)..j : s[k] = "_" => s[k - 1] # "_"

\* C7: when DEFAULT_QUERY_INTERVAL is not an integer literal, the call
\* raises ValueError at line 62, stores nothing and leaves the singleton
\* unset; a Config is stored only by a call that parsed the interval, with
\* the parsed value; and a call finding the singleton unset goes on to read
\* the environment.
C7_ParseFailurePropagates ==
    [][/\ \A t \in Threads :
            (pc[t] = "lc62" /\ pc'[t] # "lc62" /\ ~IsIntegerLiteral(read_interval)) =>
                /\ pc'[t] = "idle"
                /\ ret'[t] = Raised(op[t], "ValueError", None)
                /\ _cfg = None /\ _cfg' = None
                /\ configs' = configs
       /\ (Len(configs') > Len(configs)) =>
            /\ IsIntegerLiteral(read_interval)
            /\ configs'[Len(configs')].default_query_interval = int_val(read_interval)
       /\ \A t \in Threads :
            (pc[t] = "lc58" /\ pc'[t] # "lc58" /\ _cfg = None) => pc'[t] = "lc60"]_vars

\* a call failed on a malformed interval, a later call read the environment
\* again and stored the singleton
C7_Witness == envReads = 2 /\ _cfg # None /\ Len(configs) = 1

----------------------------------------------------------------------------
(* Properties of Config.engine *)

\* the pools constructed for Config i
EnginesOf(i) == {e \in 1..Len(engines) : engines[e].owner = i}

\* C3: under every interleaving of concurrent engine() calls on one Config
\* at most one pool is constructed for it, and all callers are returned
\* that one handle.
C3_SinglePool ==
    /\ \A i \in 1..Len(configs) : Cardinality(EnginesOf(i)) <= 1
    /\ \A t, u \in Threads :
         (ret[t].kind = "ok" /\ ret[t].op = "engine" /\
          ret[u].kind = "ok" /\ ret[u].op = "engine" /\ ret[t].on = ret[u].on)
            => ret[t].val = ret[u].val

C5_EmptyDsnFails ==
    /\ [](/\ \A i \in 1..Len(configs) :
               configs[i].pg_dsn_app = <<>> =>
                   (configs[i]._engine = None /\ EnginesOf(i) = {})
          /\ \A t \in Threads :
               (ret[t].op = "engine" /\ configs[ret[t].on].pg_dsn_app = <<>>) =>
                   ret[t] = Raised("engine", "RuntimeError", ret[t].on))
    /\ [][\A t \in Threads :
            (pc[t] = "eng43" /\ pc'[t] # "eng43"
                /\ configs[self[t]].pg_dsn_app = <<>>) =>
                /\ configs' = configs
                /\ engines' = engines
                /\ ret'[t].kind = "raise"]_vars

\* engine() has raised on a Config whose DSN is empty
C5_Witness ==
    \E t \in Threads :
        /\ ret[t].kind = "raise" /\ ret[t].op = "engine"
        /\ configs[ret[t].on].pg_dsn_app = <<>>
        /\ configs[ret[t].on]._engine = None
----------------------------------------------------------------------------
(* Properties of the CORS_ALLOWED_ORIGINS parsing *)

Least(S) == CHOOSE m \in S : \A x \in S : m <= x

Greatest(S) == CHOOSE m \in S : \A x \in S : x <= m

RECURSIVE Ascending(_)
Ascending(S) ==
    IF S = {} THEN <<>> ELSE <<Least(S)>> \o Ascending(S \ {Least(S)})

\* the reference result: the text between two neighbouring commas (or an
\* end of the string), from its first to its last non-whitespace character,
\* for every such stretch that has one, from left to right
RefOrigins(s) ==
    LET seps == {0, Len(s) + 1} \cup {i \in 1..Len(s) : s[i] = ","}
        close(a) == Least({b \in seps : b > a})
        inner(a) == {k \in (a + 1)..(close(a) - 1) : s[k] \notin Whitespace}
        starts == {a \in seps : a <= Len(s) /\ inner(a) # {}}
        order == Ascending(starts)
    IN  [n \in 1..Len(order) |->
            SubSeq(s, Least(inner(order[n])), Greatest(inner(order[n])))]

\* C8: the cors_allowed_origins list a stored Config holds is the reference
\* result for the value of CORS_ALLOWED_ORIGINS: split on ",", each element
\* trimmed, empty elements dropped, order and duplicates kept; ["*"] when
\* the variable is unset.
C8_OriginsParsed ==
    \A i \in 1..Len(configs) :
        /\ configs[i].cors_allowed_origins =
               RefOrigins(getenv("CORS_ALLOWED_ORIGINS", DefaultCors))
        /\ env["CORS_ALLOWED_ORIGINS"] = Unset =>
               configs[i].cors_allowed_origins = <<DefaultCors>>

\* the documented example " a , b ,,c " was stored as ["a", "b", "c"]
C8_Witness ==
    /\ env["CORS_ALLOWED_ORIGINS"] = Set(CorsExample)
    /\ _cfg # None
    /\ configs[_cfg].cors_allowed_origins = << <<"a">>, <<"b">>, <<"c">> >>

----------------------------------------------------------------------------
(* Properties of crypto_utils_sodium *)

\* the exceptions a key load ends with: binascii.Error from b64decode,
\* ValueError from PublicKey, TypeError from PrivateKey
KeyFormatErrors == {"binascii.Error", "ValueError", "TypeError"}

\* padded base64 text as RFC 4648 writes it: alphabet characters, then at
\* most two "=", the length a multiple of four
WellFormed(d) ==
    \E n \in 0..Len(d) :
        /\ \A k \in 1..n : IsB64Char(d[k])
        /\ \A k \in (n + 1)..Len(d) : d[k] = "="
        /\ Len(d) % 4 = 0
        /\ Len(d) - n <= 2

\* the number of bytes well-formed text encodes
WellFormedLen(d) == (3 * Cardinality({k \in 1..Len(d) : IsB64Char(d[k])})) \div 4

KeyLoadedRight(k, type) ==
    LET d == b64decode(data) IN
        /\ k.kind = "ok" <=> (d.ok /\ Len(d.bytes) = KeySize)
        /\ k.kind = "ok" => k = KeyObject(type, d.bytes)
        /\ k.kind # "ok" => (k.kind = "raise" /\ k.exc \in KeyFormatErrors /\ k.raw = <<>>)
        /\ WellFormed(data) => (k.kind = "ok" <=> WellFormedLen(data) = KeySize)

\* C10: a key load succeeds exactly when the file base64-decodes to KeySize
\* bytes, and then returns a key of those bytes; a file that decodes to
\* another length, or does not decode, ends the load with an exception and
\* no key.
C10_KeyLoadNeedsKeySize ==
    /\ pubkey.kind # "none" => KeyLoadedRight(pubkey, "PublicKey")
    /\ privkey.kind # "none" => KeyLoadedRight(privkey, "PrivateKey")

\* both loads succeeded on a well-formed file
C10_Witness ==
    /\ pubkey.kind = "ok" /\ privkey.kind = "ok"
    /\ WellFormed(data)
    /\ Len(pubkey.raw) = KeySize

\* C9: for a matching key pair, decrypting what sealedbox_encrypt returned
\* gives back the plaintext, whichever ephemeral key was used.
C9_RoundTrip ==
    (decrypted.kind # "none" /\ pk = PublicKeyOf(sk.scalar)) =>
        decrypted = PlainBytes(plaintext)

\* a non-empty plaintext came back, sealed with an ephemeral key other than
\* the recipient's
C9_Witness ==
    /\ decrypted.kind = "ok"
    /\ pk = PublicKeyOf(sk.scalar)
    /\ plaintext # <<>>
    /\ decrypted.bytes = plaintext
    /\ ciphertext.epk # sk.scalar
====
